---- MODULE Spec2Model ----
(***************************************************************************)
(* A model of the utho-go client library: the shared HTTP transport        *)
(* (NewClient, toURLWithEndingSlash, NewRequest, Do, checkForErrors) and   *)
(* the ApiKeyService resource methods (Create, List, Delete) built on it.  *)
(*                                                                         *)
(* Strings that the code takes apart (URLs, header values) are sequences   *)
(* of one-character or one-piece strings, so that concatenation is \o.     *)
(* Go's nil is the field nil = TRUE of a record whose other fields hold    *)
(* zero values.                                                            *)
(***************************************************************************)
EXTENDS Integers, Sequences, FiniteSets, TLC

VARIABLES
    pkg,        \* which copy of the transport is built: "root" (part_001) or "utho" (src/utho/utho.go)
    client,     \* the client instance shared by every caller (nil until NewClient succeeds)
    ncArgs,     \* the arguments of the last NewClient call: [called, token, options]
    ncRet,      \* what the last NewClient call returned: [client, err]
    applied,    \* the options the last NewClient call invoked, in invocation order
    calls,      \* per caller: the position and the locals of its current call
    wire        \* the requests handed to the HTTP transport, in dispatch order

vars == <<pkg, client, ncArgs, ncRet, applied, calls, wire>>

(***************************************************************************)
(* Bounds of the model.                                                    *)
(***************************************************************************)
NumCallers == 2
MaxOptions == 2

Callers == 1..NumCallers

(***************************************************************************)
(* JSON.  A response body is one of: no bytes at all ("empty"), bytes that *)
(* are not JSON ("garbage"), the literal null, a JSON value that is not an *)
(* object ("array"), or an object, given by the value of each key the      *)
(* decode targets know.  A value is absent, null, a string, a number or an *)
(* array of n objects.                                                     *)
(***************************************************************************)
JAbsent == [t |-> "absent", s |-> "", n |-> 0]
JNull == [t |-> "null", s |-> "", n |-> 0]
JStr(s) == [t |-> "str", s |-> s, n |-> 0]
JNum == [t |-> "num", s |-> "", n |-> 0]
JArr(n) == [t |-> "arr", s |-> "", n |-> n]

JObject(status, message, apikey, api) ==
    [kind |-> "object", status |-> status, message |-> message, apikey |-> apikey, api |-> api]

JOther(kind) ==
    [kind |-> kind, status |-> JAbsent, message |-> JAbsent, apikey |-> JAbsent, api |-> JAbsent]

(***************************************************************************)
(* Responses.  The HTTP transport hands a response over once the status   *)
(* line and the headers are in; its body is a stream that io.ReadAll reads *)
(* later.  Body is what that read yields, Unread before it; readErr: the   *)
(* read fails part-way.                                                    *)
(***************************************************************************)
Unread == JOther("unread")

NilResponse == [nil |-> TRUE, StatusCode |-> 0, Body |-> JOther("empty"), readErr |-> FALSE]

Response(code, body, readErr) ==
    [nil |-> FALSE, StatusCode |-> code, Body |-> body, readErr |-> readErr]

(***************************************************************************)
(* Errors.  Every error value is a record of the same shape; response is   *)
(* the *http.Response an ErrorResponse carries.                            *)
(***************************************************************************)
NoErr == [nil |-> TRUE, kind |-> "", msg |-> "", status |-> "", response |-> NilResponse]

Err(kind, msg) ==
    [nil |-> FALSE, kind |-> kind, msg |-> msg, status |-> "", response |-> NilResponse]

(***************************************************************************)
(* URLs.  A raw URL string is [origin, path]: origin is the text up to the *)
(* path (scheme and authority, "" for a relative reference) and path is    *)
(* the sequence of the path's characters.  "!" stands for a byte that      *)
(* url.Parse rejects (an ASCII control character).                         *)
(***************************************************************************)
Str(origin, path) == [origin |-> origin, path |-> path]

NilURL == [nil |-> TRUE, origin |-> "", path |-> <<>>]

BaseUrl == Str("https://api.utho.com", <<"/", "v", "2", "/">>)

HasSuffixSlash(p) == Len(p) > 0 /\ p[Len(p)] = "/"

HasBadByte(p) == \E i \in 1..Len(p) : p[i] = "!"

\* url.Parse: [url, err]
urlParse(u) ==
    IF HasBadByte(u.path)
    THEN [url |-> NilURL, err |-> Err("url", "invalid control character in URL")]
    ELSE [url |-> [nil |-> FALSE, origin |-> u.origin, path |-> u.path], err |-> NoErr]

\* Mutant of toURLWithEndingSlash: the "/" is appended without looking at the
\* end of the path.
toURLWithEndingSlashAlways(u) ==
    LET p == urlParse(u) IN
    IF ~p.err.nil THEN [url |-> NilURL, err |-> p.err]
    ELSE [url |-> [p.url EXCEPT !.path = @ \o <<"/">>], err |-> NoErr]

toURLWithEndingSlash(u) ==
    LET p == urlParse(u) IN
    IF ~p.err.nil THEN [url |-> NilURL, err |-> p.err]
    ELSE [url |-> IF ~HasSuffixSlash(p.url.path)
                  THEN [p.url EXCEPT !.path = @ \o <<"/">>]
                  ELSE p.url,
          err |-> NoErr]

\* The index of the last "/" of p, 0 when there is none.
RECURSIVE LastSlash(_, _)
LastSlash(p, i) == IF i = 0 THEN 0 ELSE IF p[i] = "/" THEN i ELSE LastSlash(p, i - 1)

\* (*URL).String(): the URL written out again.
URLString(u) == Str(u.origin, u.path)

\* The index of the first "/" of p, 0 when there is none.
RECURSIVE FirstSlash(_, _)
FirstSlash(p, i) ==
    IF i > Len(p) THEN 0 ELSE IF p[i] = "/" THEN i ELSE FirstSlash(p, i + 1)

\* strings.Cut(remaining, "/") repeated to the end: the elements of a path.
RECURSIVE Elements(_)
Elements(p) ==
    LET i == FirstSlash(p, 1) IN
    IF i = 0 THEN <<p>>
    ELSE <<SubSeq(p, 1, i - 1)>> \o Elements(SubSeq(p, i + 1, Len(p)))

IsDotElement(elem) == elem = <<".">> \/ elem = <<"..">>

\* The loop of resolvePath over elems[i..]: dst is what has been written,
\* first says that nothing follows the leading "/" yet.
RECURSIVE resolveLoop(_, _, _, _)
resolveLoop(elems, i, dst, first) ==
    IF i > Len(elems) THEN dst
    ELSE LET elem == elems[i] IN
         IF elem = <<".">> THEN resolveLoop(elems, i + 1, dst, FALSE)
         ELSE IF elem = <<"..">>
              THEN LET str == Tail(dst)
                       index == LastSlash(str, Len(str))
                   IN  IF index = 0
                       THEN resolveLoop(elems, i + 1, <<"/">>, TRUE)
                       ELSE resolveLoop(elems, i + 1,
                                        <<"/">> \o SubSeq(str, 1, index - 1), first)
              ELSE resolveLoop(elems, i + 1,
                               dst \o (IF ~first THEN <<"/">> ELSE <<>>) \o elem, FALSE)

\* resolvePath(base, ref): ref merged with base (RFC 3986, 5.2.3) and the "."
\* and ".." elements removed (5.2.4).
resolvePath(base, ref) ==
    LET full == IF ref = <<>> THEN base
                ELSE IF ref[1] # "/"
                     THEN SubSeq(base, 1, LastSlash(base, Len(base))) \o ref
                     ELSE ref
    IN  IF full = <<>> THEN <<>>
        ELSE LET elems == Elements(full)
                 dst == resolveLoop(elems, 1, <<"/">>, TRUE)
                 r == IF IsDotElement(elems[Len(elems)]) THEN dst \o <<"/">> ELSE dst
             IN  IF Len(r) > 1 /\ r[2] = "/" THEN Tail(r) ELSE r

\* (*URL).ResolveReference: a reference with a scheme or an authority of its
\* own keeps them; any other takes the base's and has its path resolved
\* against the base's path.  In a raw URL of the model the authority is in
\* origin: no path of a reference starts with "//".
ResolveReference(base, ref) ==
    IF ref.origin # ""
    THEN [nil |-> FALSE, origin |-> ref.origin, path |-> resolvePath(ref.path, <<>>)]
    ELSE [base EXCEPT !.path = resolvePath(base.path, ref.path)]

baseURLParse(base, ref) ==
    LET p == urlParse(ref) IN
    IF ~p.err.nil THEN [url |-> NilURL, err |-> p.err]
    ELSE [url |-> ResolveReference(base, p.url), err |-> NoErr]

(***************************************************************************)
(* The client and its construction.                                        *)
(***************************************************************************)
defaultHTTPClient == "defaultHTTPClient"

NilClient == [nil |-> TRUE, client |-> "", baseURL |-> NilURL, token |-> "", services |-> FALSE]

\* Configuration options (UthoOption): functions from *client to error.  Their
\* source is not among the files; they are modelled from the specification:
\* an override of the HTTP transport, an override of the base URL (normalised
\* like the default one) and an option that reports a failure.
WithHTTPClient(hc) == [kind |-> "WithHTTPClient", hc |-> hc, url |-> Str("", <<>>), err |-> ""]
WithBaseURL(u) == [kind |-> "WithBaseURL", hc |-> "", url |-> u, err |-> ""]
FailingOption(e) == [kind |-> "Failing", hc |-> "", url |-> Str("", <<>>), err |-> e]

\* option(client): [client, err]
ApplyOption(c, o) ==
    CASE o.kind = "WithHTTPClient" -> [client |-> [c EXCEPT !.client = o.hc], err |-> NoErr]
      [] o.kind = "WithBaseURL" ->
            LET r == toURLWithEndingSlash(o.url) IN
            IF ~r.err.nil THEN [client |-> c, err |-> r.err]
            ELSE [client |-> [c EXCEPT !.baseURL = r.url], err |-> NoErr]
      [] OTHER -> [client |-> c, err |-> Err("option", o.err)]

\* Mutant of ApplyOptions: a failed option does not stop the loop.
RECURSIVE ApplyOptionsSkipFailed(_, _, _, _)
ApplyOptionsSkipFailed(c, options, i, done) ==
    IF i > Len(options) THEN [client |-> c, err |-> NoErr, applied |-> done]
    ELSE LET r == ApplyOption(c, options[i]) IN
         ApplyOptionsSkipFailed(r.client, options, i + 1, Append(done, options[i]))

\* The loop of NewClient over options[i..]: [client, err, applied].
RECURSIVE ApplyOptions(_, _, _, _)
ApplyOptions(c, options, i, done) ==
    IF i > Len(options) THEN [client |-> c, err |-> NoErr, applied |-> done]
    ELSE LET r == ApplyOption(c, options[i]) IN
         IF ~r.err.nil
         THEN [client |-> c, err |-> r.err, applied |-> Append(done, options[i])]
         ELSE ApplyOptions(r.client, options, i + 1, Append(done, options[i]))

\* Mutant of NewClient: the token is not checked.
NewClientNoTokenCheck(token, options) ==
    LET d == toURLWithEndingSlash(BaseUrl) IN
    IF ~d.err.nil THEN [client |-> NilClient, err |-> d.err, applied |-> <<>>]
    ELSE LET c0 == [nil |-> FALSE, client |-> defaultHTTPClient,
                    baseURL |-> d.url, token |-> token, services |-> FALSE]
             r == ApplyOptions(c0, options, 1, <<>>)
         IN  IF ~r.err.nil
             THEN [client |-> NilClient, err |-> r.err, applied |-> r.applied]
             ELSE [client |-> [r.client EXCEPT !.services = TRUE],
                   err |-> NoErr, applied |-> r.applied]

\* NewClient(token, options...): [client, err, applied]
NewClient(token, options) ==
    IF token = ""
    THEN [client |-> NilClient, err |-> Err("config", "you must provide an API token"),
          applied |-> <<>>]
    ELSE LET d == toURLWithEndingSlash(BaseUrl) IN
         IF ~d.err.nil THEN [client |-> NilClient, err |-> d.err, applied |-> <<>>]
         ELSE LET c0 == [nil |-> FALSE, client |-> defaultHTTPClient,
                         baseURL |-> d.url, token |-> token, services |-> FALSE]
                  r == ApplyOptions(c0, options, 1, <<>>)
              IN  IF ~r.err.nil
                  THEN [client |-> NilClient, err |-> r.err, applied |-> r.applied]
                  ELSE [client |-> [r.client EXCEPT !.services = TRUE],
                        err |-> NoErr, applied |-> r.applied]

(***************************************************************************)
(* Decoding.                                                               *)
(***************************************************************************)
\* Decode targets: CreateApiKeyResponse, ApiKeys, DeleteResponse and the error
\* envelope ErrorResponse, as one record shape; a field a type does not have
\* stays at its zero value.  API is a slice: nil, or n elements.
NilSlice == [nil |-> TRUE, n |-> 0]

Zero(typ) ==
    [nil |-> FALSE, typ |-> typ, Status |-> "", Message |-> "", Apikey |-> "", API |-> NilSlice]

NilTarget == [Zero("") EXCEPT !.nil = TRUE]

\* &ErrorResponse{}: the error envelope before the body is decoded into it.
\* The type's source is not among the files; its status and message fields
\* are the specification's.
ErrorResponse == Zero("ErrorResponse")

HasKey(typ, key) ==
    CASE key \in {"status", "message"} -> TRUE
      [] key = "apikey" -> typ = "CreateApiKeyResponse"
      [] key = "api" -> typ = "ApiKeys"
      [] OTHER -> FALSE

\* Decoding one JSON value into a string field: [val, bad]
DecodeString(old, j) ==
    CASE j.t = "str" -> [val |-> j.s, bad |-> FALSE]
      [] j.t \in {"absent", "null"} -> [val |-> old, bad |-> FALSE]
      [] OTHER -> [val |-> old, bad |-> TRUE]

\* Decoding one JSON value into a slice field: [val, bad]
DecodeSlice(old, j) ==
    CASE j.t = "arr" -> [val |-> [nil |-> FALSE, n |-> j.n], bad |-> FALSE]
      [] j.t = "null" -> [val |-> NilSlice, bad |-> FALSE]
      [] j.t = "absent" -> [val |-> old, bad |-> FALSE]
      [] OTHER -> [val |-> old, bad |-> TRUE]

\* json.Unmarshal(body, target): [v, err].  The bytes are validated first, so
\* a syntax error leaves the target untouched; a value of the wrong type for a
\* field is skipped, the other fields are still decoded, and the first such
\* mismatch is reported.
Unmarshal(body, v) ==
    CASE body.kind = "empty" -> [v |-> v, err |-> Err("json", "unexpected end of JSON input")]
      [] body.kind = "garbage" -> [v |-> v, err |-> Err("json", "invalid character")]
      [] body.kind = "null" -> [v |-> v, err |-> NoErr]
      [] body.kind = "array" -> [v |-> v, err |-> Err("json", "cannot unmarshal array")]
      [] OTHER ->
            LET st == DecodeString(v.Status, body.status)
                ms == DecodeString(v.Message, body.message)
                ak == IF HasKey(v.typ, "apikey") THEN DecodeString(v.Apikey, body.apikey)
                      ELSE [val |-> v.Apikey, bad |-> FALSE]
                ap == IF HasKey(v.typ, "api") THEN DecodeSlice(v.API, body.api)
                      ELSE [val |-> v.API, bad |-> FALSE]
            IN  [v |-> [v EXCEPT !.Status = st.val, !.Message = ms.val,
                                 !.Apikey = ak.val, !.API = ap.val],
                 err |-> IF st.bad \/ ms.bad \/ ak.bad \/ ap.bad
                         THEN Err("json", "cannot unmarshal into field")
                         ELSE NoErr]

(***************************************************************************)
(* Requests.                                                               *)
(***************************************************************************)
NoHeader == <<>>

EmptyHeaders ==
    [ContentType |-> NoHeader, AcceptEncoding |-> NoHeader,
     Authorization |-> NoHeader, XClerkSDK |-> NoHeader]

NoBody == [present |-> FALSE, name |-> "", write |-> ""]

NilRequest ==
    [nil |-> TRUE, method |-> "", url |-> NilURL, body |-> NoBody, header |-> EmptyHeaders]

\* A payload handed to NewRequest: none (no argument, or nil), a
\* CreateApiKeyParams value, or a value encoding/json cannot encode.
NoPayload == [kind |-> "none", Name |-> "", Write |-> ""]
Params(name, write) == [kind |-> "params", Name |-> name, Write |-> write]
Unencodable == [kind |-> "unencodable", Name |-> "", Write |-> ""]

\* json.NewEncoder(buf).Encode(body[0]): [body, err]
Encode(p) ==
    IF p.kind = "unencodable"
    THEN [body |-> NoBody, err |-> Err("json", "unsupported type")]
    ELSE [body |-> [present |-> TRUE, name |-> p.Name, write |-> p.Write], err |-> NoErr]

\* http.NewRequest(method, url, buf): [req, err].  An empty method means GET;
\* a method that is not a token (it holds a space, say) is rejected.
NonTokenMethods == {"BAD METHOD"}

httpNewRequest(method, url, body) ==
    LET m == IF method = "" THEN "GET" ELSE method IN
    IF m \in NonTokenMethods
    THEN [req |-> NilRequest, err |-> Err("http", "invalid method")]
    ELSE [req |-> [nil |-> FALSE, method |-> m, url |-> url, body |-> body,
                   header |-> EmptyHeaders],
          err |-> NoErr]

\* The headers NewRequest puts on a request, in each copy of the transport:
\* part_001 adds Content-Type and Accept-Encoding, src/utho/utho.go sets
\* X-Clerk-SDK to "go/" + version.
version == "1.49.0"

FixedHeadersRoot(h) ==
    [h EXCEPT !.ContentType = @ \o <<"application/json">>,
              !.AcceptEncoding = @ \o <<"application/json">>]

FixedHeadersUtho(h) == [h EXCEPT !.XClerkSDK = <<"go/", version>>]

FixedHeaders(p, h) == IF p = "root" THEN FixedHeadersRoot(h) ELSE FixedHeadersUtho(h)

\* (*client).NewRequest(method, url, body...): [req, err]
NewRequest(c, p, method, url, payload) ==
    LET full == baseURLParse(c.baseURL, url) IN
    IF ~full.err.nil THEN [req |-> NilRequest, err |-> full.err]
    ELSE LET enc == IF payload.kind # "none" THEN Encode(payload)
                    ELSE [body |-> NoBody, err |-> NoErr]
         IN  IF ~enc.err.nil THEN [req |-> NilRequest, err |-> enc.err]
             ELSE LET r == httpNewRequest(method, full.url, enc.body) IN
                  IF ~r.err.nil THEN [req |-> NilRequest, err |-> r.err]
                  ELSE [req |-> [r.req EXCEPT !.header = FixedHeaders(p, @)],
                        err |-> NoErr]

(***************************************************************************)
(* Do and checkForErrors.                                                  *)
(***************************************************************************)
\* Mutant of checkForErrors: the success band is closed at 400.
checkForErrors400Ok(resp) ==
    IF resp.StatusCode >= 200 /\ resp.StatusCode <= 400 THEN NoErr
    ELSE LET errorResponse == ErrorResponse
             u == IF ~resp.readErr THEN Unmarshal(resp.Body, errorResponse).v
                  ELSE errorResponse
         IN  [nil |-> FALSE, kind |-> "ErrorResponse", msg |-> u.Message,
              status |-> u.Status, response |-> resp]

\* checkForErrors(resp): nil inside the success band, else an *ErrorResponse
\* that carries resp and whatever of the body decodes into its status and
\* message fields.
checkForErrors(resp) ==
    IF resp.StatusCode >= 200 /\ resp.StatusCode < 400 THEN NoErr
    ELSE LET errorResponse == ErrorResponse
             u == IF ~resp.readErr THEN Unmarshal(resp.Body, errorResponse).v
                  ELSE errorResponse
         IN  [nil |-> FALSE, kind |-> "ErrorResponse", msg |-> u.Message,
              status |-> u.Status, response |-> resp]

\* Mutant of DoAuthorize: Header.Add in place of Header.Set, so that a value
\* already on the request stays the one that is sent.
DoAuthorizeAdd(c, req) ==
    IF req.header.Authorization = NoHeader
    THEN [req EXCEPT !.header.Authorization = <<"Bearer ", c.token>>]
    ELSE req

\* Do, up to the dispatch: the request as the HTTP transport receives it.
DoAuthorize(c, req) ==
    [req EXCEPT !.header.Authorization = <<"Bearer ", c.token>>]

\* Mutant of DoReturn: the body is decoded into a copy of the target.
DoReturnDecodeCopy(tr, v) ==
    IF ~tr.err.nil
    THEN [resp |-> NilResponse, err |-> tr.err, v |-> v, closes |-> 0]
    ELSE LET e == checkForErrors(tr.resp) IN
         IF ~e.nil THEN [resp |-> tr.resp, err |-> e, v |-> v, closes |-> 1]
         ELSE IF v.nil THEN [resp |-> tr.resp, err |-> NoErr, v |-> v, closes |-> 1]
         ELSE IF tr.resp.readErr
              THEN [resp |-> tr.resp, err |-> Err("read", "unexpected EOF"),
                    v |-> v, closes |-> 1]
              ELSE LET u == Unmarshal(tr.resp.Body, v) IN
                   [resp |-> tr.resp, err |-> u.err, v |-> v, closes |-> 1]

\* Mutant of DoReturn: the body is decoded into the target before the status
\* is classified.
DoReturnDecodeFirst(tr, v) ==
    IF ~tr.err.nil
    THEN [resp |-> NilResponse, err |-> tr.err, v |-> v, closes |-> 0]
    ELSE LET e == checkForErrors(tr.resp)
             u == IF v.nil \/ tr.resp.readErr THEN [v |-> v, err |-> NoErr]
                  ELSE Unmarshal(tr.resp.Body, v)
         IN  IF ~e.nil THEN [resp |-> tr.resp, err |-> e, v |-> u.v, closes |-> 1]
             ELSE IF v.nil THEN [resp |-> tr.resp, err |-> NoErr, v |-> v, closes |-> 1]
             ELSE IF tr.resp.readErr
                  THEN [resp |-> tr.resp, err |-> Err("read", "unexpected EOF"),
                        v |-> v, closes |-> 1]
                  ELSE [resp |-> tr.resp, err |-> u.err, v |-> u.v, closes |-> 1]

\* Mutant of DoReturn: the body is closed at the end of Do, not by a defer, so
\* the early returns leave it open.
DoReturnCloseAtEnd(tr, v) ==
    IF ~tr.err.nil
    THEN [resp |-> NilResponse, err |-> tr.err, v |-> v, closes |-> 0]
    ELSE LET e == checkForErrors(tr.resp) IN
         IF ~e.nil THEN [resp |-> tr.resp, err |-> e, v |-> v, closes |-> 0]
         ELSE IF v.nil THEN [resp |-> tr.resp, err |-> NoErr, v |-> v, closes |-> 1]
         ELSE IF tr.resp.readErr
              THEN [resp |-> tr.resp, err |-> Err("read", "unexpected EOF"),
                    v |-> v, closes |-> 0]
              ELSE LET u == Unmarshal(tr.resp.Body, v) IN
                   [resp |-> tr.resp, err |-> u.err, v |-> u.v,
                    closes |-> IF u.err.nil THEN 1 ELSE 0]

\* Whether Do, given what the HTTP client returned, reads the response body:
\* checkForErrors reads it when the status is outside the success band, and Do
\* reads it inside the band when there is a decode target.
DoReadsBody(tr, v) ==
    /\ tr.err.nil
    /\ \/ ~(tr.resp.StatusCode >= 200 /\ tr.resp.StatusCode < 400)
       \/ ~v.nil

\* Do, from the return of c.client.Do(req) on.  tr is what the HTTP client
\* returned, [resp, err], with in resp.Body and resp.readErr what reading the
\* body yields when Do reads it; v is the decode target (nil when none was
\* given).
\* The HTTP client never hands over a response with a nil Body, so the test
\* resp.Body != nil && v != nil is the test v != nil.
\* [resp, err, v, closes]: Do's two results, the target afterwards and the
\* number of times the response body was closed.
DoReturn(tr, v) ==
    IF ~tr.err.nil
    THEN [resp |-> NilResponse, err |-> tr.err, v |-> v, closes |-> 0]
    ELSE LET e == checkForErrors(tr.resp) IN
         IF ~e.nil THEN [resp |-> tr.resp, err |-> e, v |-> v, closes |-> 1]
         ELSE IF v.nil THEN [resp |-> tr.resp, err |-> NoErr, v |-> v, closes |-> 1]
         ELSE IF tr.resp.readErr
              THEN [resp |-> tr.resp, err |-> Err("read", "unexpected EOF"),
                    v |-> v, closes |-> 1]
              ELSE LET u == Unmarshal(tr.resp.Body, v) IN
                   [resp |-> tr.resp, err |-> u.err, v |-> u.v, closes |-> 1]

(***************************************************************************)
(* The resource methods of ApiKeyService, and a caller that uses the       *)
(* Client interface directly ("Raw").                                      *)
(***************************************************************************)
CreateIn(params) ==
    [op |-> "Create", method |-> "POST", url |-> Str("", <<"api", "/", "generate">>),
     payload |-> params, preAuth |-> NoHeader, v |-> Zero("CreateApiKeyResponse")]

ListIn ==
    [op |-> "List", method |-> "GET", url |-> Str("", <<"api">>),
     payload |-> NoPayload, preAuth |-> NoHeader, v |-> Zero("ApiKeys")]

DeleteIn(apiKeyId) ==
    [op |-> "Delete", method |-> "DELETE",
     url |-> Str("", <<"api", "/">> \o apiKeyId \o <<"/", "delete">>),
     payload |-> NoPayload, preAuth |-> NoHeader, v |-> Zero("DeleteResponse")]

RawIn(method, url, payload, preAuth, v) ==
    [op |-> "Raw", method |-> method, url |-> url,
     payload |-> payload, preAuth |-> preAuth, v |-> v]

ServiceOps == {"Create", "List", "Delete"}

NilResult == NilTarget

\* Mutant of ServiceReturn: on an API-level failure the decoded value is
\* returned along with the error.
ServiceReturnKeepsResult(op, d) ==
    IF ~d.err.nil THEN [result |-> NilResult, err |-> d.err]
    ELSE IF d.v.Status # "success" /\ d.v.Status # ""
         THEN [result |-> d.v, err |-> Err("api", d.v.Message)]
         ELSE IF op = "List"
              THEN [result |-> [Zero("[]ApiKey") EXCEPT !.nil = d.v.API.nil, !.API = d.v.API],
                    err |-> NoErr]
              ELSE [result |-> d.v, err |-> NoErr]

\* Mutant of ServiceReturn: only the status "success" counts as success.
ServiceReturnEmptyFails(op, d) ==
    IF ~d.err.nil THEN [result |-> NilResult, err |-> d.err]
    ELSE IF d.v.Status # "success"
         THEN [result |-> NilResult, err |-> Err("api", d.v.Message)]
         ELSE IF op = "List"
              THEN [result |-> [Zero("[]ApiKey") EXCEPT !.nil = d.v.API.nil, !.API = d.v.API],
                    err |-> NoErr]
              ELSE [result |-> d.v, err |-> NoErr]

\* Mutant of ServiceReturn: the status of the decoded value is looked at
\* before Do's error.
ServiceReturnStatusFirst(op, d) ==
    IF d.v.Status # "success" /\ d.v.Status # ""
    THEN [result |-> NilResult, err |-> Err("api", d.v.Message)]
    ELSE IF ~d.err.nil THEN [result |-> NilResult, err |-> d.err]
         ELSE IF op = "List"
              THEN [result |-> [Zero("[]ApiKey") EXCEPT !.nil = d.v.API.nil, !.API = d.v.API],
                    err |-> NoErr]
              ELSE [result |-> d.v, err |-> NoErr]

\* What a resource method returns once Do has returned d: [result, err].
ServiceReturn(op, d) ==
    IF ~d.err.nil THEN [result |-> NilResult, err |-> d.err]
    ELSE IF d.v.Status # "success" /\ d.v.Status # ""
         THEN [result |-> NilResult, err |-> Err("api", d.v.Message)]
         ELSE IF op = "List"
              THEN [result |-> [Zero("[]ApiKey") EXCEPT !.nil = d.v.API.nil, !.API = d.v.API],
                    err |-> NoErr]
              ELSE [result |-> d.v, err |-> NoErr]

NoCall ==
    [pc |-> "idle", in |-> ListIn, req |-> NilRequest, reqErr |-> NoErr, v |-> NilTarget,
     tr |-> [resp |-> NilResponse, err |-> NoErr],
     do |-> [resp |-> NilResponse, err |-> NoErr, v |-> NilTarget, closes |-> 0],
     ret |-> [result |-> NilResult, err |-> NoErr]]

Crashed == \E c \in Callers : calls[c].pc = "panic"

(***************************************************************************)
(* Actions.                                                                *)
(***************************************************************************)
\* A program calls NewClient(token, options...) to build the shared client.
NewClientCall(token, options) ==
    /\ client.nil
    /\ LET r == NewClient(token, options) IN
        /\ ncArgs' = [called |-> TRUE, token |-> token, options |-> options]
        /\ ncRet' = [client |-> r.client, err |-> r.err]
        /\ applied' = r.applied
        /\ client' = r.client
    /\ UNCHANGED <<pkg, calls, wire>>

\* Caller c starts a call: the method builds its request with NewRequest.  A
\* resource method drops NewRequest's error and goes on with the request it
\* got; a direct caller stops on the error, and may put an Authorization
\* header of its own on the request.
BuildRequest(c, in) ==
    /\ ~client.nil
    /\ ~Crashed
    /\ calls[c].pc = "idle"
    /\ LET r == NewRequest(client, pkg, in.method, in.url, in.payload)
           req == IF ~r.req.nil /\ in.preAuth # NoHeader
                  THEN [r.req EXCEPT !.header.Authorization = in.preAuth]
                  ELSE r.req
       IN  calls' = [calls EXCEPT ![c] =
                IF in.op = "Raw" /\ ~r.err.nil
                THEN [NoCall EXCEPT !.pc = "done", !.in = in, !.reqErr = r.err, !.v = in.v,
                                    !.ret = [result |-> NilResult, err |-> r.err]]
                ELSE [NoCall EXCEPT !.pc = "built", !.in = in, !.req = req,
                                    !.reqErr = r.err, !.v = in.v]]
    /\ wire' = [wire EXCEPT ![c] = <<>>]
    /\ UNCHANGED <<pkg, client, ncArgs, ncRet, applied>>

\* Mutant of DoSend: the request being sent is kept in one place shared by
\* the callers, so that it replaces the request of every caller about to send.
DoSendSharedRequest(c) ==
    /\ ~Crashed
    /\ calls[c].pc = "built"
    /\ IF calls[c].req.nil
       THEN /\ calls' = [calls EXCEPT ![c].pc = "panic"]
            /\ UNCHANGED wire
       ELSE LET sent == DoAuthorize(client, calls[c].req) IN
            /\ calls' = [d \in Callers |->
                            IF d = c THEN [calls[d] EXCEPT !.pc = "inflight", !.req = sent]
                            ELSE IF calls[d].pc = "built" THEN [calls[d] EXCEPT !.req = sent]
                            ELSE calls[d]]
            /\ wire' = [wire EXCEPT ![c] = Append(@, sent)]
    /\ UNCHANGED <<pkg, client, ncArgs, ncRet, applied>>

\* Caller c enters Do: the Authorization header is set on the request and the
\* request is handed to the HTTP client.  A nil request is dereferenced.
DoSend(c) ==
    /\ ~Crashed
    /\ calls[c].pc = "built"
    /\ IF calls[c].req.nil
       THEN /\ calls' = [calls EXCEPT ![c].pc = "panic"]
            /\ UNCHANGED wire
       ELSE LET sent == DoAuthorize(client, calls[c].req) IN
            /\ calls' = [calls EXCEPT ![c].pc = "inflight", ![c].req = sent]
            /\ wire' = [wire EXCEPT ![c] = Append(@, sent)]
    /\ UNCHANGED <<pkg, client, ncArgs, ncRet, applied>>

\* Mutant of TransportReply: after a transport failure the request is sent
\* once more.
TransportReplyRetry(c, tr) ==
    /\ ~Crashed
    /\ calls[c].pc = "inflight"
    /\ IF DoReadsBody(tr, calls[c].v)
       THEN calls' = [calls EXCEPT ![c].pc = "reading", ![c].tr = tr]
       ELSE LET d == DoReturn(tr, calls[c].v) IN
            calls' = [calls EXCEPT ![c].pc = IF ~tr.err.nil /\ Len(wire[c]) < 2
                                             THEN "built" ELSE "done",
                                   ![c].tr = tr, ![c].do = d, ![c].v = d.v,
                                   ![c].ret = IF calls[c].in.op \in ServiceOps
                                              THEN ServiceReturn(calls[c].in.op, d)
                                              ELSE [result |-> NilResult, err |-> d.err]]
    /\ UNCHANGED <<pkg, client, ncArgs, ncRet, applied, wire>>

\* The HTTP client returns tr to caller c: an error, or a response whose body
\* is still to be read.  When Do has a body to read, the caller now waits for
\* it in io.ReadAll, holding the response with its body open.  Otherwise Do
\* returns at once (the transport's error, or a success without a decode
\* target) and the method that called Do returns.
TransportReply(c, tr) ==
    /\ ~Crashed
    /\ calls[c].pc = "inflight"
    /\ IF DoReadsBody(tr, calls[c].v)
       THEN calls' = [calls EXCEPT ![c].pc = "reading", ![c].tr = tr]
       ELSE LET d == DoReturn(tr, calls[c].v) IN
            calls' = [calls EXCEPT ![c].pc = "done", ![c].tr = tr, ![c].do = d, ![c].v = d.v,
                                   ![c].ret = IF calls[c].in.op \in ServiceOps
                                              THEN ServiceReturn(calls[c].in.op, d)
                                              ELSE [result |-> NilResult, err |-> d.err]]
    /\ UNCHANGED <<pkg, client, ncArgs, ncRet, applied, wire>>

\* io.ReadAll(resp.Body) returns to caller c with rd, [Body, readErr]: the
\* bytes of the body, or a failure.  Do builds the ErrorResponse or decodes
\* into the target, the deferred Close runs as Do returns, and the method that
\* called Do returns.
ReadBody(c, rd) ==
    /\ ~Crashed
    /\ calls[c].pc = "reading"
    /\ LET tr == [calls[c].tr EXCEPT !.resp.Body = rd.Body, !.resp.readErr = rd.readErr]
           d == DoReturn(tr, calls[c].v)
       IN  calls' = [calls EXCEPT ![c].pc = "done", ![c].tr = tr, ![c].do = d, ![c].v = d.v,
                                  ![c].ret = IF calls[c].in.op \in ServiceOps
                                             THEN ServiceReturn(calls[c].in.op, d)
                                             ELSE [result |-> NilResult, err |-> d.err]]
    /\ UNCHANGED <<pkg, client, ncArgs, ncRet, applied, wire>>

\* Caller c is done with the results of its call.
Return(c) ==
    /\ ~Crashed
    /\ calls[c].pc = "done"
    /\ calls' = [calls EXCEPT ![c] = NoCall]
    /\ wire' = [wire EXCEPT ![c] = <<>>]
    /\ UNCHANGED <<pkg, client, ncArgs, ncRet, applied>>

(***************************************************************************)
(* Inputs.                                                                 *)
(***************************************************************************)
Tokens == {"", "tok", "tok2"}

CustomBase == Str("http://localhost", <<"/", "x">>)
BadBase == Str("http://localhost", <<"/", "!">>)

Options ==
    {WithHTTPClient("custom"), WithHTTPClient("other"), WithBaseURL(CustomBase),
     WithBaseURL(BadBase), FailingOption("boom")}

RECURSIVE SeqsUpTo(_, _)
SeqsUpTo(S, n) ==
    IF n = 0 THEN {<<>>}
    ELSE LET shorter == SeqsUpTo(S, n - 1) IN
         shorter \cup {Append(q, x) : q \in shorter, x \in S}

OptionLists == SeqsUpTo(Options, MaxOptions)

Prefilled == [Zero("DeleteResponse") EXCEPT !.Status = "old", !.Message = "kept"]

Inputs ==
    {CreateIn(Params("name", "1")), ListIn, DeleteIn(<<"176300">>), DeleteIn(<<"!">>)}
    \cup {RawIn("GET", Str("", <<"api">>), NoPayload, NoHeader, NilTarget),
          RawIn("", Str("", <<"/", "api">>), NoPayload, <<"Basic ", "old">>, Prefilled),
          RawIn("POST", Str("", <<"api">>), Unencodable, NoHeader, NilTarget),
          RawIn("BAD METHOD", Str("", <<"api">>), NoPayload, NoHeader, NilTarget),
          RawIn("POST", Str("", <<"cloud", "/", "deploy">>), Params("n", "0"),
                <<"Bearer ", "stale">>, Zero("ApiKeys"))}

StatusCodes == {199, 200, 399, 400, 404, 500}

Bodies ==
    {JOther("empty"), JOther("garbage"), JOther("null"), JOther("array"),
     JObject(JAbsent, JAbsent, JAbsent, JAbsent),
     JObject(JStr("success"), JStr("success"), JStr("key"), JArr(2)),
     JObject(JStr("success"), JAbsent, JAbsent, JArr(0)),
     JObject(JStr("success"), JAbsent, JAbsent, JNull),
     JObject(JStr(""), JStr("X"), JStr("key"), JAbsent),
     JObject(JStr("failed"), JStr("X"), JStr("key"), JArr(1)),
     JObject(JStr("error"), JAbsent, JAbsent, JAbsent),
     JObject(JNum, JStr("X"), JAbsent, JAbsent),
     JObject(JStr("failed"), JNum, JAbsent, JAbsent)}

TransportErr == Err("transport", "dial tcp: connection refused")

\* What the HTTP client returns: a failure, or a response with a status.
Replies ==
    {[resp |-> NilResponse, err |-> TransportErr]}
    \cup {[resp |-> Response(code, Unread, FALSE), err |-> NoErr] : code \in StatusCodes}

\* What reading a body yields: its bytes, or part of them and a failure.
Reads ==
    {[Body |-> body, readErr |-> FALSE] : body \in Bodies}
    \cup {[Body |-> JObject(JStr("failed"), JStr("X"), JAbsent, JAbsent), readErr |-> TRUE]}

(***************************************************************************)
(* Specification: one caller uses the client, with every input.            *)
(***************************************************************************)
Init ==
    /\ pkg \in {"root", "utho"}
    /\ client = NilClient
    /\ ncArgs = [called |-> FALSE, token |-> "", options |-> <<>>]
    /\ ncRet = [client |-> NilClient, err |-> NoErr]
    /\ applied = <<>>
    /\ calls = [c \in Callers |-> NoCall]
    /\ wire = [c \in Callers |-> <<>>]

Next ==
    \/ \E token \in Tokens, options \in OptionLists : NewClientCall(token, options)
    \/ \E in \in Inputs : BuildRequest(1, in)
    \/ DoSend(1)
    \/ \E tr \in Replies : TransportReply(1, tr)
    \/ \E rd \in Reads : ReadBody(1, rd)
    \/ Return(1)

Spec == Init /\ [][Next]_vars

(***************************************************************************)
(* Specification: several callers share the client and their calls         *)
(* interleave, with a selection of the inputs.                             *)
(***************************************************************************)
ConcInputs ==
    {ListIn, DeleteIn(<<"176300">>),
     RawIn("POST", Str("", <<"cloud", "/", "deploy">>), Params("n", "0"),
           <<"Bearer ", "stale">>, Zero("ApiKeys"))}

ConcReplies ==
    {[resp |-> NilResponse, err |-> TransportErr],
     [resp |-> Response(200, Unread, FALSE), err |-> NoErr],
     [resp |-> Response(404, Unread, FALSE), err |-> NoErr]}

ConcReads ==
    {[Body |-> JObject(JStr("success"), JStr("success"), JStr("key"), JArr(2)),
      readErr |-> FALSE],
     [Body |-> JObject(JStr("failed"), JStr("X"), JStr("key"), JArr(1)), readErr |-> FALSE],
     [Body |-> JOther("garbage"), readErr |-> FALSE]}

NextConc ==
    \/ \E options \in {<<>>, <<WithHTTPClient("custom")>>} : NewClientCall("tok", options)
    \/ \E c \in Callers, in \in ConcInputs : BuildRequest(c, in)
    \/ \E c \in Callers : DoSend(c)
    \/ \E c \in Callers, tr \in ConcReplies : TransportReply(c, tr)
    \/ \E c \in Callers, rd \in ConcReads : ReadBody(c, rd)
    \/ \E c \in Callers : Return(c)

SpecConc == Init /\ [][NextConc]_vars

(***************************************************************************)
(* Properties.                                                             *)
(***************************************************************************)
InBand(code) == code >= 200 /\ code < 400

\* Caller c's resource-method call has returned after Do dispatched its request.
ServiceDone(c) ==
    calls[c].pc = "done" /\ calls[c].in.op \in ServiceOps /\ Len(wire[c]) > 0

\* Caller c's call has returned and the HTTP client had handed Do a response.
Answered(c) ==
    calls[c].pc = "done" /\ Len(wire[c]) > 0 /\ calls[c].tr.err.nil

\* C1 (as stated): every Create, List or Delete call whose request went through
\* the pipeline ends with exactly one of a non-nil result and a non-nil error.
C1_ExactlyOneNonNil ==
    \A c \in Callers :
        ServiceDone(c) => (calls[c].ret.result.nil # calls[c].ret.err.nil)

\* C1 (amended): such a call never returns a result together with an error;
\* Create and Delete return exactly one of a non-nil result and a non-nil error;
\* List returns a nil error together with the decoded api slice, which is nil
\* exactly when the body held no api array.
C1_ResultOrError ==
    \A c \in Callers :
        ServiceDone(c) =>
            LET r == calls[c].ret
                body == calls[c].tr.resp.Body
            IN  /\ ~r.err.nil => r.result.nil
                /\ calls[c].in.op \in {"Create", "Delete"} => (r.result.nil # r.err.nil)
                /\ (calls[c].in.op = "List" /\ r.err.nil) =>
                        (r.result.nil <=> ~(body.kind = "object" /\ body.api.t = "arr"))

C1_Witness ==
    \E c \in Callers :
        /\ ServiceDone(c)
        /\ calls[c].in.op = "List"
        /\ calls[c].ret.err.nil
        /\ calls[c].ret.result.nil
        /\ calls[c].tr.resp.StatusCode = 200

\* C2: for a response whose status is outside [200,400), Do returns that
\* response and an ErrorResponse carrying it; the error's status and message
\* are the body's when the body is a JSON object with those strings, and are
\* empty when the body is empty or not JSON.
C2_ErrorOutsideBand ==
    \A c \in Callers :
        (Answered(c) /\ ~InBand(calls[c].tr.resp.StatusCode)) =>
            LET resp == calls[c].tr.resp
                d == calls[c].do
            IN  /\ ~d.err.nil
                /\ d.err.kind = "ErrorResponse"
                /\ d.err.response = resp
                /\ d.err.response.StatusCode = resp.StatusCode
                /\ d.resp = resp
                /\ (/\ ~resp.readErr
                    /\ resp.Body.kind = "object"
                    /\ resp.Body.status.t = "str"
                    /\ resp.Body.message.t = "str")
                   => (d.err.status = resp.Body.status.s /\ d.err.msg = resp.Body.message.s)
                /\ resp.Body.kind \in {"empty", "garbage"}
                   => (d.err.status = "" /\ d.err.msg = "")

C2_Witness ==
    \E c \in Callers :
        /\ Answered(c)
        /\ calls[c].tr.resp.StatusCode = 400
        /\ calls[c].tr.resp.Body.kind = "garbage"
        /\ calls[c].do.err.kind = "ErrorResponse"
        /\ calls[c].do.err.msg = ""

\* A body that is well-formed JSON matching the target type typ.
WellFormedFor(typ, body) ==
    /\ body.kind = "object"
    /\ body.status.t \in {"absent", "str"}
    /\ body.message.t \in {"absent", "str"}
    /\ HasKey(typ, "apikey") => body.apikey.t \in {"absent", "str"}
    /\ HasKey(typ, "api") => body.api.t \in {"absent", "arr"}

\* The value the field of a target must hold once the JSON value j was decoded
\* into it: the JSON value when there is one, else what the field held.
FieldAfter(old, j) == IF j.t = "str" THEN j.s ELSE old

\* C3: for a status in [200,400) (200 and 399 in, 199 and 400 out), a decode
\* target and a well-formed body matching the target's type, Do returns the
\* response and a nil error, and the target holds the body's content.
C3_SuccessDecodes ==
    \A c \in Callers :
        Answered(c) =>
            LET resp == calls[c].tr.resp
                v0 == calls[c].in.v
                d == calls[c].do
            IN  /\ resp.StatusCode \in {199, 400} => ~d.err.nil
                /\ (/\ resp.StatusCode \in 200..399
                    /\ ~v0.nil
                    /\ ~resp.readErr
                    /\ WellFormedFor(v0.typ, resp.Body))
                   => /\ d.err.nil
                      /\ d.resp = resp
                      /\ calls[c].v.Status = FieldAfter(v0.Status, resp.Body.status)
                      /\ calls[c].v.Message = FieldAfter(v0.Message, resp.Body.message)
                      /\ HasKey(v0.typ, "apikey")
                         => calls[c].v.Apikey = FieldAfter(v0.Apikey, resp.Body.apikey)
                      /\ (HasKey(v0.typ, "api") /\ resp.Body.api.t = "arr")
                         => calls[c].v.API = [nil |-> FALSE, n |-> resp.Body.api.n]

C3_Witness ==
    \E c \in Callers :
        /\ Answered(c)
        /\ calls[c].tr.resp.StatusCode = 399
        /\ calls[c].in.op = "Create"
        /\ calls[c].tr.resp.Body.apikey = JStr("key")
        /\ calls[c].do.err.nil
        /\ calls[c].v.Apikey = "key"
        /\ calls[c].v.Status = "success"

\* The status string of a body: "" when the key is absent.
BodyStatus(body) ==
    IF body.kind = "object" /\ body.status.t = "str" THEN body.status.s ELSE ""

BodyMessage(body) ==
    IF body.kind = "object" /\ body.message.t = "str" THEN body.message.s ELSE ""

\* C4: when Do returned a nil error, the resource method returns an error
\* exactly when the body's status is non-empty and differs from "success";
\* the error carries the body's message and the result is nil.  Otherwise the
\* decoded value is returned with a nil error.
C4_ApiStatusCheck ==
    \A c \in Callers :
        (ServiceDone(c) /\ calls[c].do.err.nil) =>
            LET body == calls[c].tr.resp.Body
                r == calls[c].ret
                failed == BodyStatus(body) # "" /\ BodyStatus(body) # "success"
            IN  /\ ~r.err.nil <=> failed
                /\ failed => /\ r.err.msg = BodyMessage(body)
                             /\ r.err.kind = "api"
                             /\ r.result.nil
                /\ ~failed => /\ r.result.API = calls[c].v.API
                              /\ calls[c].in.op # "List" =>
                                    /\ ~r.result.nil
                                    /\ r.result = calls[c].v
                                    /\ r.result.Status = BodyStatus(body)

C4_Witness ==
    \E c \in Callers :
        /\ ServiceDone(c)
        /\ calls[c].in.op = "Delete"
        /\ calls[c].do.err.nil
        /\ calls[c].tr.resp.StatusCode = 200
        /\ BodyStatus(calls[c].tr.resp.Body) = "failed"
        /\ calls[c].ret.err.msg = "X"
        /\ calls[c].ret.result.nil

\* C5: NewClient with an empty token returns a nil client and an error, and
\* invokes no option, whatever options it was given.
C5_EmptyTokenFails ==
    (ncArgs.called /\ ncArgs.token = "") =>
        /\ ncRet.client.nil
        /\ ~ncRet.err.nil
        /\ ncRet.err.msg = "you must provide an API token"
        /\ applied = <<>>
        /\ client.nil

C5_Witness ==
    /\ ncArgs.called
    /\ ncArgs.token = ""
    /\ Len(ncArgs.options) > 0
    /\ ~ncRet.err.nil

\* C6: every request handed to the HTTP transport carries
\* Authorization = "Bearer " + the client's token, whatever the request held
\* before and whichever method issued it.
C6_BearerOnWire ==
    \A c \in Callers :
        \A i \in 1..Len(wire[c]) :
            wire[c][i].header.Authorization = <<"Bearer ", client.token>>

C6_Witness ==
    \E c \in Callers :
        /\ Len(wire[c]) = 1
        /\ calls[c].in.preAuth = <<"Basic ", "old">>
        /\ client.token = "tok2"
        /\ wire[c][1].header.Authorization = <<"Bearer ", "tok2">>

\* C7 (as stated): a request NewRequest has built, and Do has not yet been
\* given, has Content-Type: application/json and Accept-Encoding:
\* application/json and no Authorization header.
C7_FixedHeaders ==
    \A c \in Callers :
        (calls[c].pc = "built" /\ ~calls[c].req.nil /\ calls[c].in.preAuth = NoHeader) =>
            /\ calls[c].req.header.ContentType = <<"application/json">>
            /\ calls[c].req.header.AcceptEncoding = <<"application/json">>
            /\ calls[c].req.header.Authorization = NoHeader

C7_Witness ==
    \E c \in Callers :
        /\ pkg = "root"
        /\ calls[c].pc = "built"
        /\ ~calls[c].req.nil
        /\ calls[c].req.header.ContentType = <<"application/json">>
        /\ calls[c].req.header.Authorization = NoHeader

\* The error the option o reports when it is applied, nil when it succeeds.
OptionError(o) ==
    CASE o.kind = "Failing" -> Err("option", o.err)
      [] o.kind = "WithBaseURL" /\ HasBadByte(o.url.path) ->
            Err("url", "invalid control character in URL")
      [] OTHER -> NoErr

FailingAt(options) == {i \in 1..Len(options) : ~OptionError(options[i]).nil}

Least(S) == CHOOSE i \in S : \A j \in S : i <= j

Greatest(S) == CHOOSE i \in S : \A j \in S : i >= j

OfKind(options, kind) == {i \in 1..Len(options) : options[i].kind = kind}

\* A base URL as the client holds it: its path ends in "/".
Normalised(u) ==
    [nil |-> FALSE, origin |-> u.origin,
     path |-> IF HasSuffixSlash(u.path) THEN u.path ELSE Append(u.path, "/")]

\* C8: NewClient with a token invokes its options in the order given, starting
\* from the token and the default base URL.  At the first option that fails it
\* stops: that option's error is returned, no later option is invoked and no
\* client is returned.  When every option succeeds, the client returned has its
\* sub-accessors set, the token given, and the configuration the options leave
\* when applied in order (the last override of each kind wins, the default
\* stays where there is none).
C8_OptionsInOrder ==
    (ncArgs.called /\ ncArgs.token # "") =>
        LET options == ncArgs.options
            bad == FailingAt(options)
        IN  IF bad # {}
            THEN /\ applied = SubSeq(options, 1, Least(bad))
                 /\ ncRet.err = OptionError(options[Least(bad)])
                 /\ ncRet.client.nil
                 /\ client.nil
            ELSE LET hcs == OfKind(options, "WithHTTPClient")
                     urls == OfKind(options, "WithBaseURL")
                 IN  /\ applied = options
                     /\ ncRet.err.nil
                     /\ ~ncRet.client.nil
                     /\ client = ncRet.client
                     /\ client.services
                     /\ client.token = ncArgs.token
                     /\ client.client = IF hcs = {} THEN defaultHTTPClient
                                        ELSE options[Greatest(hcs)].hc
                     /\ client.baseURL = IF urls = {} THEN Normalised(BaseUrl)
                                         ELSE Normalised(options[Greatest(urls)].url)

C8_Witness ==
    /\ ncArgs.called
    /\ ncArgs.token # ""
    /\ ncArgs.options = <<WithBaseURL(BadBase), FailingOption("boom")>>
    /\ applied = <<WithBaseURL(BadBase)>>
    /\ ncRet.err.kind = "url"
    /\ ncRet.client.nil

\* C9: a call dispatches at most one request.  When the HTTP client reports a
\* failure, Do returns a nil response and that very error, the target is left
\* alone, nothing is closed, and the resource method returns the error: the
\* request is not sent again.
C9_OneDispatchNoRetry ==
    \A c \in Callers :
        /\ Len(wire[c]) <= 1
        /\ calls[c].pc \in {"inflight", "reading"} => Len(wire[c]) = 1
        /\ (calls[c].pc = "done" /\ Len(wire[c]) > 0 /\ ~calls[c].tr.err.nil) =>
                /\ Len(wire[c]) = 1
                /\ calls[c].do.resp.nil
                /\ calls[c].do.err = calls[c].tr.err
                /\ calls[c].do.closes = 0
                /\ calls[c].v = calls[c].in.v
                /\ calls[c].ret.err = calls[c].tr.err
                /\ calls[c].ret.result.nil

C9_Witness ==
    \E c \in Callers :
        /\ calls[c].pc = "done"
        /\ Len(wire[c]) = 1
        /\ calls[c].tr.err = TransportErr
        /\ calls[c].in.op = "List"
        /\ calls[c].ret.err = TransportErr

\* A step of caller c leaves every other caller's call and request alone.
OwnStateOnly ==
    \A c \in Callers :
        (calls'[c] # calls[c] \/ wire'[c] # wire[c]) =>
            \A d \in Callers \ {c} : calls'[d] = calls[d] /\ wire'[d] = wire[d]

\* Two calls with the same inputs that received the same reply have sent the
\* same request and ended alike, whatever ran in between.
SameCallSameOutcome ==
    \A c, d \in Callers :
        (calls[c].in = calls[d].in /\ calls[c].pc = calls[d].pc /\ calls[c].pc # "idle") =>
            /\ wire[c] = wire[d]
            /\ calls[c].req = calls[d].req
            /\ (calls[c].pc = "done" /\ calls[c].tr = calls[d].tr) =>
                    calls[c].ret = calls[d].ret /\ calls[c].do = calls[d].do

\* C10: with several callers sharing the client, no step of a call changes the
\* client once it is built (base URL, token, HTTP client, sub-accessors), each
\* step changes the stepping caller's own request, response and results only,
\* and the outcome of a call is determined by its own inputs and its own reply
\* under every interleaving.
C10_CallsIndependent ==
    /\ []SameCallSameOutcome
    /\ [][(~client.nil => client' = client) /\ OwnStateOnly]_vars

\* One caller waits for the body of its response while the call of another,
\* sent on the same client, has run to its end.
C10_Witness ==
    \E c, d \in Callers :
        /\ c # d
        /\ calls[c].pc = "reading"
        /\ calls[c].in.op = "List"
        /\ calls[c].tr.resp.StatusCode = 200
        /\ calls[c].tr.resp.Body = Unread
        /\ calls[c].v = calls[c].in.v
        /\ calls[d].pc = "done"
        /\ calls[d].in.op = "Delete"
        /\ calls[d].tr.resp.StatusCode = 200
        /\ BodyStatus(calls[d].tr.resp.Body) = "failed"
        /\ calls[d].ret.err.msg = "X"
        /\ wire[c] # wire[d]

\* C11 (as stated): when NewRequest fails inside Create, List or Delete, the
\* method has returned that error to its caller: it does not go on to Do with
\* the request it did not get.
C11_BuildErrorReturned ==
    \A c \in Callers :
        (calls[c].in.op \in ServiceOps /\ calls[c].pc # "idle" /\ ~calls[c].reqErr.nil) =>
            /\ calls[c].pc = "done"
            /\ calls[c].ret.err = calls[c].reqErr
            /\ calls[c].ret.result.nil

\* C12 (as stated): for a status in [200,400), Do returns the response and a
\* nil error and leaves the target as it was when a target was given and the
\* body is empty, and also when no target was given, whatever the body.
C12_EmptyBodyNotParsed ==
    \A c \in Callers :
        (/\ Answered(c)
         /\ InBand(calls[c].tr.resp.StatusCode)
         /\ \/ calls[c].in.v.nil
            \/ (calls[c].tr.resp.Body.kind = "empty" /\ ~calls[c].tr.resp.readErr))
        => /\ calls[c].do.err.nil
           /\ calls[c].do.resp = calls[c].tr.resp
           /\ calls[c].v = calls[c].in.v

\* A body that json.Unmarshal rejects for the target type typ: not JSON, not
\* an object, or an object with a value of the wrong type for one of the
\* type's fields.
InvalidFor(typ, body) ==
    \/ body.kind \in {"garbage", "array"}
    \/ /\ body.kind = "object"
       /\ \/ body.status.t \in {"num", "arr"}
          \/ body.message.t \in {"num", "arr"}
          \/ HasKey(typ, "apikey") /\ body.apikey.t \in {"num", "arr"}
          \/ HasKey(typ, "api") /\ body.api.t \in {"num", "str"}

\* C13: for a status in [200,400) and a non-empty body that is not valid JSON
\* for the target, Do returns the response together with a decode error, and
\* the resource method returns a nil result and that same error, whatever
\* status the body carries.
C13_DecodeErrorSurfaced ==
    \A c \in Callers :
        (/\ Answered(c)
         /\ InBand(calls[c].tr.resp.StatusCode)
         /\ ~calls[c].in.v.nil
         /\ ~calls[c].tr.resp.readErr
         /\ InvalidFor(calls[c].in.v.typ, calls[c].tr.resp.Body))
        => /\ ~calls[c].do.err.nil
           /\ calls[c].do.err.kind = "json"
           /\ ~calls[c].do.resp.nil
           /\ calls[c].do.resp = calls[c].tr.resp
           /\ calls[c].in.op \in ServiceOps =>
                /\ calls[c].ret.result.nil
                /\ calls[c].ret.err = calls[c].do.err

C13_Witness ==
    \E c \in Callers :
        /\ Answered(c)
        /\ calls[c].in.op = "Create"
        /\ calls[c].tr.resp.StatusCode = 200
        /\ calls[c].tr.resp.Body.kind = "object"
        /\ calls[c].tr.resp.Body.status = JStr("failed")
        /\ calls[c].tr.resp.Body.message = JNum
        /\ calls[c].v.Status = "failed"
        /\ calls[c].ret.err.kind = "json"
        /\ calls[c].ret.result.nil

\* C14: for a status outside [200,400), Do returns the error and the decode
\* target is exactly what the caller passed in, also when the body is JSON
\* that fits the target's type.
C14_TargetUntouchedOnError ==
    \A c \in Callers :
        (Answered(c) /\ ~InBand(calls[c].tr.resp.StatusCode)) =>
            /\ ~calls[c].do.err.nil
            /\ calls[c].do.v = calls[c].in.v
            /\ calls[c].v = calls[c].in.v

C14_Witness ==
    \E c \in Callers :
        /\ Answered(c)
        /\ calls[c].tr.resp.StatusCode = 404
        /\ calls[c].in.v = Prefilled
        /\ WellFormedFor(calls[c].in.v.typ, calls[c].tr.resp.Body)
        /\ calls[c].tr.resp.Body.status = JStr("failed")
        /\ calls[c].do.err.status = "failed"
        /\ calls[c].v = Prefilled

\* C15: when the HTTP client handed Do a response, its body has been closed
\* exactly once when Do has returned, on every exit path, and is open while Do
\* waits for it to be read; when the HTTP client failed, nothing was closed.
C15_BodyClosedOnce ==
    \A c \in Callers :
        /\ calls[c].pc = "reading" => calls[c].do.closes = 0
        /\ (calls[c].pc = "done" /\ Len(wire[c]) > 0) =>
                calls[c].do.closes = IF calls[c].tr.err.nil THEN 1 ELSE 0

C15_Witness ==
    \E c \in Callers :
        /\ Answered(c)
        /\ calls[c].tr.resp.StatusCode = 200
        /\ calls[c].tr.resp.readErr
        /\ calls[c].do.err.kind = "read"
        /\ calls[c].do.closes = 1

(***************************************************************************)
(* Specification: one caller, with a selection of base URLs and relative   *)
(* paths.                                                                  *)
(***************************************************************************)
URLBases ==
    {CustomBase, Str("http://localhost", <<>>),
     Str("http://localhost", <<"/", "a", "/", "b", "/">>),
     Str("http://localhost", <<"/", "a", "/", ".", "/", "b">>),
     Str("http://localhost", <<"/", "a", "/", "..", "/", "b", "/">>),
     Str("http://localhost", <<"/", "a", "/", "/", "b", "/", "..">>)}

RelPaths ==
    {<<>>, <<"api">>, <<"cloud", "/", "images">>, <<"/", "api">>, <<"/", "a", "/", "b">>,
     <<"..", "/", "x">>, <<".", "/", "x">>, <<"a", "/", "..", "/", "b">>, <<"x", "/", ".">>,
     <<"..", "/", "..", "/", "..", "/", "x">>, <<"/", "a", "/", "..", "/", "b">>, <<"..">>,
     <<"x", "/">>}

URLInputs ==
    {RawIn("GET", Str("", rel), NoPayload, NoHeader, NilTarget) : rel \in RelPaths}
    \cup {ListIn, DeleteIn(<<"176300">>), DeleteIn(<<"..">>)}

NextURL ==
    \/ \E options \in {<<>>} \cup {<<WithBaseURL(u)>> : u \in URLBases} :
            NewClientCall("tok", options)
    \/ \E in \in URLInputs : BuildRequest(1, in)
    \/ DoSend(1)
    \/ \E tr \in ConcReplies : TransportReply(1, tr)
    \/ \E rd \in ConcReads : ReadBody(1, rd)
    \/ Return(1)

SpecURL == Init /\ [][NextURL]_vars

\* The base URL string the client was configured with.
ConfiguredBase ==
    LET urls == OfKind(ncArgs.options, "WithBaseURL") IN
    IF urls = {} THEN BaseUrl ELSE ncArgs.options[Greatest(urls)].url

\* A path with no "." and no ".." element.
DotFree(path) == \A i \in 1..Len(path) : path[i] \notin {".", ".."}

\* The client's base URL is the configured one with one "/" appended when its
\* path did not end in "/", and unchanged otherwise; normalising it again
\* changes nothing.
BaseNormalisedOnce ==
    ~client.nil =>
        /\ client.baseURL.origin = ConfiguredBase.origin
        /\ client.baseURL.path = IF HasSuffixSlash(ConfiguredBase.path)
                                 THEN ConfiguredBase.path
                                 ELSE ConfiguredBase.path \o <<"/">>
        /\ toURLWithEndingSlash(URLString(client.baseURL)).url = client.baseURL

\* Caller c holds a request that NewRequest built from a relative path.
Built(c) ==
    calls[c].pc \in {"built", "inflight", "reading", "done"} /\ ~calls[c].req.nil
        /\ calls[c].in.url.origin = ""

Cuts(path) == {0, Len(path) + 1} \cup {i \in 1..Len(path) : path[i] = "/"}

\* The k-th of them, from the left.
NthCut(path, k) ==
    CHOOSE i \in Cuts(path) : Cardinality({j \in Cuts(path) : j < i}) = k - 1

\* The segments of a path: what stands between one "/" and the next.
Segments(path) ==
    [k \in 1..(Cardinality(Cuts(path)) - 1) |->
        SubSeq(path, NthCut(path, k) + 1, NthCut(path, k + 1) - 1)]

\* RFC 3986, 5.2.4, over the segments segs[i..] of a path: a "." is dropped,
\* a ".." is dropped and takes the segment kept last with it (none at the
\* root), any other segment is kept.
RECURSIVE KeptSegments(_, _, _)
KeptSegments(segs, i, kept) ==
    IF i > Len(segs) THEN kept
    ELSE IF segs[i] = <<".">> THEN KeptSegments(segs, i + 1, kept)
    ELSE IF segs[i] = <<"..">>
         THEN KeptSegments(segs, i + 1,
                           IF kept = <<>> THEN kept ELSE SubSeq(kept, 1, Len(kept) - 1))
         ELSE KeptSegments(segs, i + 1, Append(kept, segs[i]))

RECURSIVE SlashJoined(_)
SlashJoined(segs) ==
    IF segs = <<>> THEN <<>> ELSE <<"/">> \o Head(segs) \o SlashJoined(Tail(segs))

\* An absolute path with its dot segments removed: the kept segments, each
\* after a "/", and a closing "/" where the path ended in "." or "..".
WithoutDotSegments(path) ==
    LET segs == Segments(path)
        kept == KeptSegments(segs, 2, <<>>)
    IN  IF kept = <<>> THEN <<"/">>
        ELSE IF segs[Len(segs)] \in {<<".">>, <<"..">>} THEN SlashJoined(kept) \o <<"/">>
        ELSE SlashJoined(kept)

\* The path a relative path stands for at the client: itself when it starts
\* with "/", else the client's base path followed by it.
Merged(rel) ==
    IF rel # <<>> /\ rel[1] = "/" THEN rel ELSE client.baseURL.path \o rel

====
